---- MODULE Spec2Model ----
(***************************************************************************)
(* crop_cells.py: find_non_black_pixels scans an image inward from each of *)
(* its four corners for the first non-black pixel, crop_and_save turns the *)
(* four (index, axis) reports into the box left/right/top/bottom and       *)
(* slices the image to it.                                                 *)
(***************************************************************************)
EXTENDS Integers, Sequences, FiniteSets, TLC

\* ------------------------------------------------------------- bounds
\* Largest height and width of the enumerated input images.
MaxH == 3
MaxW == 3
\* Margins 0..MaxMargin are tried besides the default crop_tolerance.
MaxMargin == 1
\* Offsets 0..MaxOffset of the reports handed directly to crop_and_save.
MaxOffset == 1

\* ---------------------------------------------------------- constants
\* tolerance=30 (the parameter's default, and what main passes)
DefaultTolerance == 30
\* crop_tolerance=5 (the parameter's default, and what main passes)
DefaultCropTolerance == 5

\* -------------------------------------------------------------- pixels
\* BGR pixels. BgPixel is black at the very edge of the tolerance, FgPixel
\* exceeds it in a single channel; Black and Red are the scenario's colours.
BgPixel == <<30, 30, 30>>
FgPixel == <<0, 0, 31>>
Black == <<0, 0, 0>>
Red == <<0, 0, 255>>
Palette == {BgPixel, FgPixel}

Min(a, b) == IF a <= b THEN a ELSE b
Max(a, b) == IF a >= b THEN a ELSE b

\* An image is its shape and its pixel grid, px[<<row, column>>].
Image(H, W, f) == [h |-> H, w |-> W, px |-> f]
Grid(H, W) == (0 .. H - 1) \X (0 .. W - 1)

\* The 10x10 image with a 6x6 red square inside a 2-pixel black border.
ScenarioImage ==
    Image(10, 10, [rc \in Grid(10, 10) |->
                      IF rc[1] \in 2 .. 7 /\ rc[2] \in 2 .. 7 THEN Red ELSE Black])

\* The test with the comparison turned around.
is_black_pixel_flipped(pixel, tolerance) ==
    \A ch \in 1 .. Len(pixel) : pixel[ch] >= tolerance

\* np.all(pixel <= tolerance)
is_black_pixel(pixel, tolerance) ==
    \A ch \in 1 .. Len(pixel) : pixel[ch] <= tolerance

\* numpy integer indexing of an axis of length n: i is valid when
\* -n <= i < n, and a negative i counts from the end.
IndexOk(i, n) == -n <= i /\ i < n
IndexNorm(i, n) == IF i < 0 THEN i + n ELSE i

\* image[r, c]: whether it raises IndexError, and the pixel it yields.
SubscriptOk(img, rc) == IndexOk(rc[1], img.h) /\ IndexOk(rc[2], img.w)
Subscript(img, rc) == img.px[<<IndexNorm(rc[1], img.h), IndexNorm(rc[2], img.w)>>]

Corners == {"top_left", "top_right", "bottom_left", "bottom_right"}
CornerOrder == <<"top_left", "top_right", "bottom_left", "bottom_right">>

\* The subscripts of the first and of the second test of a corner's loop body
\* at loop index x.
HorizontalSubscript(img, corner, x) ==
    CASE corner = "top_left" -> <<0, x>>
      [] corner = "top_right" -> <<0, img.w - x - 1>>
      [] corner = "bottom_left" -> <<img.h - 1, x>>
      [] corner = "bottom_right" -> <<img.h - 1, img.w - x - 1>>

VerticalSubscript(img, corner, x) ==
    CASE corner = "top_left" -> <<x, 0>>
      [] corner = "top_right" -> <<x, img.w - 1>>
      [] corner = "bottom_left" -> <<img.h - x - 1, 0>>
      [] corner = "bottom_right" -> <<img.h - x - 1, img.w - 1>>

\* The locals index, axis and x of find_non_black_pixels, and whether the
\* loop raised IndexError.
Locals(index, axis, x, raised) ==
    [index |-> index, axis |-> axis, x |-> x, raised |-> raised]

\* for x in range(width): ... from loop value i on, with the locals as the
\* previous corner left them.
RECURSIVE Loop(_, _, _, _, _)
Loop(img, tolerance, corner, i, st) ==
    IF i >= img.w
    THEN st
    ELSE IF ~SubscriptOk(img, HorizontalSubscript(img, corner, i))
    THEN Locals(st.index, st.axis, i, TRUE)
    ELSE IF ~is_black_pixel(Subscript(img, HorizontalSubscript(img, corner, i)), tolerance)
    THEN Locals(i, "horizontal", i, FALSE)
    ELSE IF ~SubscriptOk(img, VerticalSubscript(img, corner, i))
    THEN Locals(st.index, st.axis, i, TRUE)
    ELSE IF ~is_black_pixel(Subscript(img, VerticalSubscript(img, corner, i)), tolerance)
    THEN Locals(i, "vertical", i, FALSE)
    ELSE Loop(img, tolerance, corner, i + 1, Locals(st.index, st.axis, i, FALSE))

\* The same loop with the two tests in the other order.
RECURSIVE LoopVerticalFirst(_, _, _, _, _)
LoopVerticalFirst(img, tolerance, corner, i, st) ==
    IF i >= img.w
    THEN st
    ELSE IF ~SubscriptOk(img, VerticalSubscript(img, corner, i))
    THEN Locals(st.index, st.axis, i, TRUE)
    ELSE IF ~is_black_pixel(Subscript(img, VerticalSubscript(img, corner, i)), tolerance)
    THEN Locals(i, "vertical", i, FALSE)
    ELSE IF ~SubscriptOk(img, HorizontalSubscript(img, corner, i))
    THEN Locals(st.index, st.axis, i, TRUE)
    ELSE IF ~is_black_pixel(Subscript(img, HorizontalSubscript(img, corner, i)), tolerance)
    THEN Locals(i, "horizontal", i, FALSE)
    ELSE LoopVerticalFirst(img, tolerance, corner, i + 1, Locals(st.index, st.axis, i, FALSE))

ScanCornerVerticalFirst(img, tolerance, corner, st) ==
    LoopVerticalFirst(img, tolerance, corner, 0, st)

\* One corner's for loop, entered with the locals st.
ScanCorner(img, tolerance, corner, st) == Loop(img, tolerance, corner, 0, st)

VARIABLES
    image,          \* the image both functions are given
    pc,             \* the corner scanned next, or returned / raised / cropped
    index, axis, x, \* locals of find_non_black_pixels (x = -1: not yet bound)
    results,        \* the dict find_non_black_pixels builds
    error,          \* the exception that ended find_non_black_pixels, or ""
    non_black,      \* main's non_black: the dict crop_and_save is given
    crop_tolerance, \* the margin of the latest crop_and_save call
    box,            \* left, right, top, bottom of the latest call
    cropped_shape,  \* the shape of image[top:bottom, left:right]
    prev_call       \* margin and box of the call before the latest one

vars == <<image, pc, index, axis, x, results, error, non_black,
          crop_tolerance, box, cropped_shape, prev_call>>


\* ------------------------------------------------------- crop_and_save
\* Determine left boundary, with the second corner's value assigned
\* instead of combined by max.
left_boundary_overwrite(nb, ct) ==
    LET left0 == 0
        left1 == IF nb["top_left"][2] = "horizontal"
                 THEN nb["top_left"][1] + ct ELSE left0
    IN  IF nb["bottom_left"][2] = "horizontal"
        THEN nb["bottom_left"][1] + ct ELSE left1

\* Determine left boundary
left_boundary(nb, ct) ==
    LET left0 == 0
        left1 == IF nb["top_left"][2] = "horizontal"
                 THEN nb["top_left"][1] + ct ELSE left0
    IN  IF nb["bottom_left"][2] = "horizontal"
        THEN Max(left1, nb["bottom_left"][1] + ct) ELSE left1

\* Determine right boundary
right_boundary(nb, width, ct) ==
    LET right0 == width
        right1 == IF nb["top_right"][2] = "horizontal"
                  THEN width - nb["top_right"][1] - ct ELSE right0
    IN  IF nb["bottom_right"][2] = "horizontal"
        THEN Min(right1, width - nb["bottom_right"][1] - ct) ELSE right1

\* Determine top boundary
top_boundary(nb, ct) ==
    LET top0 == 0
        top1 == IF nb["top_left"][2] = "vertical"
                THEN nb["top_left"][1] + ct ELSE top0
    IN  IF nb["top_right"][2] = "vertical"
        THEN Max(top1, nb["top_right"][1] + ct) ELSE top1

\* Determine bottom boundary, with the margin added instead of subtracted.
bottom_boundary_plus(nb, height, ct) ==
    LET bottom0 == height
        bottom1 == IF nb["bottom_left"][2] = "vertical"
                   THEN height - nb["bottom_left"][1] + ct ELSE bottom0
    IN  IF nb["bottom_right"][2] = "vertical"
        THEN Min(bottom1, height - nb["bottom_right"][1] + ct) ELSE bottom1

\* Determine bottom boundary
bottom_boundary(nb, height, ct) ==
    LET bottom0 == height
        bottom1 == IF nb["bottom_left"][2] = "vertical"
                   THEN height - nb["bottom_left"][1] - ct ELSE bottom0
    IN  IF nb["bottom_right"][2] = "vertical"
        THEN Min(bottom1, height - nb["bottom_right"][1] - ct) ELSE bottom1

CropBox(img, nb, ct) ==
    [left |-> left_boundary(nb, ct),
     right |-> right_boundary(nb, img.w, ct),
     top |-> top_boundary(nb, ct),
     bottom |-> bottom_boundary(nb, img.h, ct)]

\* The number of elements a slice start:stop selects from an axis of length
\* n: a negative bound counts from the end, and both are clipped to 0..n.
SliceBound(v, n) == IF v < 0 THEN Max(v + n, 0) ELSE Min(v, n)
SliceLen(start, stop, n) == Max(0, SliceBound(stop, n) - SliceBound(start, n))

\* The shape of image[top:bottom, left:right].
CroppedShape(img, b) ==
    <<SliceLen(b.top, b.bottom, img.h), SliceLen(b.left, b.right, img.w)>>

Margins == (0 .. MaxMargin) \cup {DefaultCropTolerance}

\* ------------------------------------------------------------- states
NoResults == [c \in {} |-> <<0, "">>]
NoBox == [left |-> -1, right |-> -1, top |-> -1, bottom |-> -1]
NoCall == [crop_tolerance |-> -1, box |-> NoBox]

\* find_non_black_pixels(image, tolerance=30) is entered: results = {}.
\* index and axis are unbound until the first corner binds them to 0 and ''.
Init ==
    /\ \/ \E H \in 0 .. MaxH, W \in 0 .. MaxW :
             \E f \in [Grid(H, W) -> Palette] : image = Image(H, W, f)
       \/ image = ScenarioImage
    /\ pc = "top_left"
    /\ index = 0
    /\ axis = ""
    /\ x = -1
    /\ results = NoResults
    /\ error = ""
    /\ non_black = NoResults
    /\ crop_tolerance = -1
    /\ box = NoBox
    /\ cropped_shape = <<-1, -1>>
    /\ prev_call = NoCall

\* One corner's block: its loop, then results[corner] = (index, axis). An
\* IndexError raised by a subscript ends the function without a return value.
Scan(corner, st0, next) ==
    /\ pc = corner
    /\ LET st == ScanCorner(image, DefaultTolerance, corner, st0)
       IN  /\ index' = st.index
           /\ axis' = st.axis
           /\ x' = st.x
           /\ IF st.raised
              THEN /\ pc' = "raised"
                   /\ error' = "IndexError"
                   /\ UNCHANGED <<results, non_black>>
              ELSE /\ pc' = next
                   /\ error' = error
                   /\ results' = (corner :> <<st.index, st.axis>>) @@ results
                   /\ non_black' = IF next = "returned" THEN results' ELSE non_black
    /\ UNCHANGED <<image, crop_tolerance, box, cropped_shape, prev_call>>

\* Top-left corner: axis = '' and index = 0, then the loop.
ScanTopLeft == Scan("top_left", Locals(0, "", x, FALSE), "top_right")

\* Top-right corner: the loop starts from the index and axis the top-left
\* corner left.
ScanTopRight == Scan("top_right", Locals(index, axis, x, FALSE), "bottom_left")

\* Bottom-left corner
ScanBottomLeft == Scan("bottom_left", Locals(index, axis, x, FALSE), "bottom_right")

\* Bottom-right corner, and return results (main binds it to non_black).
ScanBottomRight == Scan("bottom_right", Locals(index, axis, x, FALSE), "returned")

\* crop_and_save(image, non_black, image_filename, crop_tolerance=m)
Crop(m) ==
    /\ crop_tolerance' = m
    /\ box' = CropBox(image, non_black, m)
    /\ cropped_shape' = CroppedShape(image, box')
    /\ pc' = "cropped"
    /\ UNCHANGED <<image, index, axis, x, results, error, non_black>>

\* main: crop_and_save on what find_non_black_pixels returned.
CropAndSave ==
    /\ pc = "returned"
    /\ \E m \in Margins : Crop(m)
    /\ UNCHANGED prev_call

Next ==
    \/ ScanTopLeft
    \/ ScanTopRight
    \/ ScanBottomLeft
    \/ ScanBottomRight
    \/ CropAndSave

Spec == Init /\ [][Next]_vars

\* ------------------------------------- crop_and_save as a function of
\* arbitrary reports
Axes == {"horizontal", "vertical", ""}
Reports == [Corners -> (0 .. MaxOffset) \X Axes]
BlankImage(H, W) == Image(H, W, [rc \in Grid(H, W) |-> BgPixel])
CropShapes == {<<1, 1>>, <<MaxH, MaxW>>}

InitCrop ==
    /\ \E s \in CropShapes : image = BlankImage(s[1], s[2])
    /\ non_black \in Reports
    /\ results = non_black
    /\ pc = "returned"
    /\ index = 0
    /\ axis = ""
    /\ x = -1
    /\ error = ""
    /\ crop_tolerance = -1
    /\ box = NoBox
    /\ cropped_shape = <<-1, -1>>
    /\ prev_call = NoCall

\* crop_and_save called once more on the same image and reports with
\* another margin; the earlier call's margin and box are kept for comparison.
CropAgain ==
    /\ pc = "cropped"
    /\ prev_call = NoCall
    /\ \E m \in Margins : Crop(m)
    /\ prev_call' = [crop_tolerance |-> crop_tolerance, box |-> box]

NextCrop == CropAndSave \/ CropAgain

SpecCrop == InitCrop /\ [][NextCrop]_vars


\* ========================================================= properties
\* The vocabulary of the properties, stated on the image itself and not
\* through the scan's own operators.
h == image.h
w == image.w
Returned == pc \in {"returned", "cropped"}
Reported == DOMAIN results
NoEvidence == <<0, "">>

\* any(channel > tolerance for channel in pixel)
NonBackground(pixel) == \E ch \in 1 .. Len(pixel) : pixel[ch] > DefaultTolerance
AllBackground == \A rc \in Grid(h, w) : ~NonBackground(image.px[rc])

IsTop(c) == c \in {"top_left", "top_right"}
IsLeft(c) == c \in {"top_left", "bottom_left"}

\* The pixel of corner c's adjacent row, and of its adjacent column, i steps
\* inward from the corner.
RowPixel(c, i) ==
    image.px[<<IF IsTop(c) THEN 0 ELSE h - 1, IF IsLeft(c) THEN i ELSE w - 1 - i>>]
ColPixel(c, i) ==
    image.px[<<IF IsTop(c) THEN i ELSE h - 1 - i, IF IsLeft(c) THEN 0 ELSE w - 1>>]
RowHit(c, i) == i < w /\ NonBackground(RowPixel(c, i))
ColHit(c, i) == i < h /\ NonBackground(ColPixel(c, i))

\* Corner c's loop meets no non-background pixel at any of its indices.
NoHit(c) == \A i \in 0 .. w - 1 : ~RowHit(c, i) /\ ~ColHit(c, i)

\* i is the first index at which corner c's row or column pixel is
\* non-background, and both are.
Tie(c, i) ==
    /\ RowHit(c, i) /\ ColHit(c, i)
    /\ \A j \in 0 .. i - 1 : ~RowHit(c, j) /\ ~ColHit(c, j)

\* The corner whose loop raised, when pc = "raised".
RaisedCorner == CornerOrder[Cardinality(Reported) + 1]

FullBox == [left |-> 0, right |-> w, top |-> 0, bottom |-> h]
SetMax(S) == CHOOSE m \in S : \A y \in S : y <= m
SetMin(S) == CHOOSE m \in S : \A y \in S : m <= y

\* C1: for an image with H >= 1 and W >= 1 whose every pixel is background,
\* the scan returns (0, '') for all four corners and the box of every margin
\* is the full image.
C1_AllBackgroundKeepsFullImage ==
    (h >= 1 /\ w >= 1 /\ AllBackground) =>
        /\ pc # "raised"
        /\ \A c \in Reported : results[c] = NoEvidence
        /\ Returned => DOMAIN non_black = Corners
        /\ pc = "cropped" => box = FullBox

\* C2 as stated: on the 10x10 scenario image every corner reports
\* (2, horizontal) and the box of margin 0 is left=2, right=8, top=2, bottom=8.
C2_ScenarioCropsToSquare ==
    (image = ScenarioImage) =>
        /\ \A c \in Reported : results[c] = <<2, "horizontal">>
        /\ (pc = "cropped" /\ crop_tolerance = 0) =>
               box = [left |-> 2, right |-> 8, top |-> 2, bottom |-> 8]

\* C2 as amended: on the 10x10 scenario image, whose edge rows and columns
\* are all background, the scan returns (0, '') for all four corners and the
\* box of margin 0 is the full image left=0, right=10, top=0, bottom=10.
C2_ScenarioKeepsFullImage ==
    (image = ScenarioImage) =>
        /\ pc # "raised"
        /\ \A c \in Reported : results[c] = NoEvidence
        /\ Returned => DOMAIN non_black = Corners
        /\ (pc = "cropped" /\ crop_tolerance = 0) =>
               box = [left |-> 0, right |-> 10, top |-> 0, bottom |-> 10]

C2_ScenarioCropped ==
    /\ image = ScenarioImage
    /\ pc = "cropped"
    /\ crop_tolerance = 0
    /\ \A c \in Corners : non_black[c] = NoEvidence

\* C3: a corner whose loop meets no non-background pixel reports (0, ''),
\* whatever the corners scanned before it found.
C3_NoCarryOver ==
    \A c \in Reported : NoHit(c) => results[c] = NoEvidence

\* C4: when row 0 is background at columns 0..k-1 and non-background at
\* column k, and column 0 is background in every row, the scan reports
\* top_left = (k, horizontal).
C4_TopLeftHorizontalAtK ==
    \A k \in 0 .. w - 1 :
        ( /\ h >= 1
          /\ \A j \in 0 .. k - 1 : ~NonBackground(image.px[<<0, j>>])
          /\ NonBackground(image.px[<<0, k>>])
          /\ \A r \in 0 .. h - 1 : ~NonBackground(image.px[<<r, 0>>])
          /\ pc # "top_left" ) =>
            /\ "top_left" \in Reported
            /\ results["top_left"] = <<k, "horizontal">>

\* C5: given an image of zero height or zero width, the scan fails with
\* InvalidImage and returns no corner reports.
C5_DegenerateImageRejected ==
    ((h = 0 \/ w = 0) /\ pc # "top_left") =>
        /\ pc = "raised"
        /\ error = "InvalidImage"
        /\ results = NoResults

\* C6: for an image with H >= 1 and W >= 1 and the default margin 5, the box
\* computed from the scan's reports satisfies 0 <= left < right <= W and
\* 0 <= top < bottom <= H.
C6_BoxWithinImage ==
    (h >= 1 /\ w >= 1 /\ pc = "cropped" /\ crop_tolerance = DefaultCropTolerance) =>
        /\ 0 <= box.left /\ box.left < box.right /\ box.right <= w
        /\ 0 <= box.top /\ box.top < box.bottom /\ box.bottom <= h

\* Corner c's loop has run: it stored its report or raised.
Scanned(c) == c \in Reported \/ (pc = "raised" /\ RaisedCorner = c)

C9_ScanStaysInRange ==
    (h >= 1 /\ w >= 1) =>
        /\ pc # "raised"
        /\ x < Min(h, w)

\* C8: with the image and the four reports fixed, a call of crop_and_save
\* with a margin no smaller than an earlier call's yields left and top no
\* smaller and right and bottom no larger than the earlier call's.
C8_MarginMonotone ==
    (prev_call # NoCall /\ prev_call.crop_tolerance <= crop_tolerance) =>
        /\ box.left >= prev_call.box.left
        /\ box.top >= prev_call.box.top
        /\ box.right <= prev_call.box.right
        /\ box.bottom <= prev_call.box.bottom

C8_MarginGrewBoxShrank ==
    /\ prev_call # NoCall
    /\ prev_call.crop_tolerance < crop_tolerance
    /\ box.left > prev_call.box.left
    /\ box.bottom < prev_call.box.bottom
    /\ box.right = prev_call.box.right

\* The insets (offset + margin) of the corners among cs whose axis is ax.
Insets(cs, ax) == { non_black[c][1] + crop_tolerance : c \in { d \in cs : non_black[d][2] = ax } }

\* C10: for reports with offsets >= 0 and a margin >= 0, left is the largest
\* of 0 and the insets of top_left and bottom_left with axis horizontal, top
\* likewise of top_left and top_right with axis vertical, right the smallest
\* of W and W minus the insets of top_right and bottom_right with axis
\* horizontal, bottom likewise from H of bottom_left and bottom_right with
\* axis vertical; so the box lies within the image and a side without
\* evidence on its axis stays at the image edge.
C10_MostConservativeEvidence ==
    pc = "cropped" =>
        /\ box.left = SetMax({0} \cup Insets({"top_left", "bottom_left"}, "horizontal"))
        /\ box.top = SetMax({0} \cup Insets({"top_left", "top_right"}, "vertical"))
        /\ box.right =
               SetMin({w} \cup { w - d : d \in Insets({"top_right", "bottom_right"}, "horizontal") })
        /\ box.bottom =
               SetMin({h} \cup { h - d : d \in Insets({"bottom_left", "bottom_right"}, "vertical") })
        /\ box.left >= 0 /\ box.top >= 0 /\ box.right <= w /\ box.bottom <= h
        /\ Insets({"top_left", "bottom_left"}, "horizontal") = {} => box.left = 0
        /\ Insets({"top_left", "top_right"}, "vertical") = {} => box.top = 0
        /\ Insets({"top_right", "bottom_right"}, "horizontal") = {} => box.right = w
        /\ Insets({"bottom_left", "bottom_right"}, "vertical") = {} => box.bottom = h

C10_TwoCornersDisagree ==
    /\ pc = "cropped"
    /\ non_black["top_left"][2] = "horizontal"
    /\ non_black["bottom_left"][2] = "horizontal"
    /\ non_black["bottom_left"][1] < non_black["top_left"][1]
    /\ box.left = non_black["top_left"][1] + crop_tolerance
    /\ box.top = 0
    /\ crop_tolerance > 0

====
